---------------------------- MODULE Spec2Model ----------------------------
(***************************************************************************)
(* A model of utils::BitSet<T>, utils::bitset::Index and                   *)
(* utils::bitset::const_iterator<T> (src/BitSet.h).                        *)
(*                                                                         *)
(* Values of the C++ integer types are modelled as bit vectors: a value    *)
(* of a type of width w is the set of the positions in 0..w-1 of its bits  *)
(* that are 1 (two's complement for the signed int).  This keeps the       *)
(* width of every value explicit, so that integral promotion (uint8_t and  *)
(* uint16_t operands are converted to the 32-bit int before ~, -, <<, >>   *)
(* and &) and the conversion back to T on assignment are steps of the      *)
(* model, and it lets 32- and 64-bit masks be checked.                     *)
(***************************************************************************)
EXTENDS Integers, Sequences, FiniteSets

VARIABLES
  N,          \* the number of bits of T, 8 * sizeof(T)
  m_bitmask,  \* BitSetPOD<T>::m_bitmask of the BitSet under test
  m_index,    \* IndexPOD::m_index of the Index under test
  m_mask,     \* const_iterator<T>::m_mask of the iterator under test
  pc,         \* position of the client loop that drives the iterator
  yielded,    \* the values the loop got from operator*, in order
  mutations,  \* number of mutating calls made on the BitSet so far
  op,         \* name of the member function called last
  from,       \* m_index (or the argument index) at the time of that call
  ret,        \* what that call returned
  arg,        \* the other argument of that call (a mask, a count, a char pair)
  before,     \* the calls that wrote m_bitmask, each with m_bitmask before it
  result,     \* std::string result of to_string
  p,          \* std::string::iterator p of to_string, as an offset in result
  bit         \* a second Index: `bit` of to_string, the right operand of a
              \* comparison

vars ==
  <<N, m_bitmask, m_index, m_mask, pc, yielded, mutations, op, from, ret,
    arg, before, result, p, bit>>

\* What the scans, the iteration and the accessors neither read nor write.
NoCall ==
  /\ arg = {}
  /\ before = <<>>
  /\ result = <<>>
  /\ p = 0
  /\ bit = 0

---------------------------------------------------------------------------
(* Bounds of the model. *)

\* Masks with at most this many bits set, and their complements, are tried
\* at every width (besides every mask whose set bits lie in the low byte).
MaxSetBits == 1

\* The client makes at most this many mutating calls on a BitSet in a run.
MaxMutations == 2

---------------------------------------------------------------------------
(* The integer types. *)

\* The widths of the unsigned types T the model instantiates BitSet<T> with.
Widths == {8, 16, 32, 64}

\* The width of the type an operand of type T has after integral promotion:
\* int (32 bits) for uint8_t and uint16_t, T itself otherwise.
PromotedWidth(w) == IF w < 32 THEN 32 ELSE w

Bits(w) == 0 .. (w - 1)

\* Conversion of a value to an unsigned type of width w (modulo 2^w).
Trunc(v, w) == v \cap Bits(w)

Min(S) == CHOOSE x \in S : \A y \in S : x <= y
\* The largest element, as the smallest of the negated ones.
Max(S) == 0 - Min({0 - x : x \in S})

\* ~v at width w.
BitNot(v, w) == Bits(w) \ v

BitAnd(a, b) == a \cap b
BitOr(a, b) == a \cup b
BitXor(a, b) == (a \ b) \cup (b \ a)

\* v + 1 at width w (modulo 2^w): the carry runs through the low ones.
Inc(v, w) ==
  LET zeros == Bits(w) \ v IN
  IF zeros = {} THEN {}
  ELSE LET z == Min(zeros) IN (v \ Bits(z)) \cup {z}

\* v - 1 at width w (modulo 2^w): the borrow runs through the low zeros.
Dec(v, w) ==
  IF v = {} THEN Bits(w)
  ELSE LET l == Min(v) IN (v \ {l}) \cup Bits(l)

\* -v at width w (two's complement).
Neg(v, w) == Inc(BitNot(v, w), w)

\* a + b at width w (modulo 2^w), bit i upward with carry c: where the two
\* bits are equal the sum bit is the carry and the carry out is that bit,
\* where they differ the sum bit is the inverse of the carry, which goes on.
RECURSIVE AddFrom(_, _, _, _, _)
AddFrom(a, b, i, c, w) ==
  IF i >= w THEN {}
  ELSE IF (i \in a) = (i \in b)
         THEN (IF c = 1 THEN {i} ELSE {})
                \cup AddFrom(a, b, i + 1, IF i \in a THEN 1 ELSE 0, w)
         ELSE (IF c = 0 THEN {i} ELSE {}) \cup AddFrom(a, b, i + 1, c, w)

Add(a, b, w) == AddFrom(a, b, 0, 0, w)

\* a - b at width w (modulo 2^w).
Sub(a, b, w) == Add(a, Neg(b, w), w)

\* v << k and v >> k at width w, for a shift count the language defines.
Shl(v, k, w) == {i + k : i \in v} \cap Bits(w)
Shr(v, k) == {i - k : i \in {j \in v : j >= k}}

\* `mask <<= k` with the result left in the promoted type, not converted
\* back to T.
ShlAssignPromoted(mask, k, w) ==
  LET pw == PromotedWidth(w) IN
  IF 0 <= k /\ k < pw THEN {Shl(mask, k, pw)}
  ELSE {Shl(mask, k % pw, pw), {}}

\* The outcomes of `mask <<= k` for a mask of type T (width w).  The shift is
\* done on the promoted operand and the result converted back to T.  A count
\* that is negative or not less than the promoted width is undefined
\* behaviour: the builds produce either the shift by the count modulo the
\* width (the machine's shift instruction) or zero (the folded shift).
ShlAssign(mask, k, w) ==
  LET pw == PromotedWidth(w) IN
  IF 0 <= k /\ k < pw THEN {Trunc(Shl(mask, k, pw), w)}
  ELSE {Trunc(Shl(mask, k % pw, pw), w), {}}

\* mask >>= k with the count taken modulo the width of T.
ShrAssignModWidth(mask, k, w) == {Trunc(Shr(mask, k % w), w)}

\* The outcomes of `mask >>= k`, likewise.
ShrAssign(mask, k, w) ==
  LET pw == PromotedWidth(w) IN
  IF 0 <= k /\ k < pw THEN {Trunc(Shr(mask, k), w)}
  ELSE {Trunc(Shr(mask, k % pw), w), {}}

\* Conversion to int8_t.
Int8(x) == ((x + 128) % 256) - 128

---------------------------------------------------------------------------
(* The primitives of ctz.h, popcount.h, log2.h, mssb.h and                 *)
(* is_power_of_two.h.                                                      *)

\* Number of trailing zero bits of a nonzero value.
ctz(v) == Min(v)

\* Number of leading zero bits of a nonzero value of width w.
clz(v, w) == (w - 1) - Max(v)

\* Number of bits set.
popcount(v) == Cardinality(v)

\* log2.h: floor(log2(v)) of a nonzero value.  The result for 0 is not
\* specified: the outcomes are -1 and every bit position.
log2(v, w) == IF v # {} THEN {Max(v)} ELSE -1 .. (w - 1)

\* mssb.h: the value with only the highest set bit of a nonzero value (via
\* log2).  The result for 0 is not specified: the outcomes are 0 and every
\* single bit.
utils_mssb(v, w) ==
  IF v # {} THEN {{Max(v)}} ELSE {{}} \cup {{i} : i \in Bits(w)}

\* is_power_of_two.h: value != 0 && (value & (value - 1)) == 0.
is_power_of_two(v, w) ==
  v # {} /\ BitAnd(v, Dec(v, PromotedWidth(w))) = {}

---------------------------------------------------------------------------
(* bitset::IndexPOD constants and bitset::Index. *)

index_pre_begin == -1
index_begin == 0
\* index_end<T> = { 8 * sizeof(T) }: the int8_t holding the width.
index_end(w) == Int8(w)

\* The widths of T the Index is documented for.
IndexWidths == {8, 16, 32, 64, 128}

\* The m_index of an Index made for position q (an int8_t).
IndexAt(q) == Int8(q)

\* The comparison operators of Index: they compare m_index.
index_eq(i1, i2) == i1 = i2

index_ne(i1, i2) == i1 # i2

index_lt(i1, i2) == i1 < i2

index_le(i1, i2) == i1 <= i2

index_gt(i1, i2) == i1 > i2

index_ge(i1, i2) == i1 >= i2

\* next_bit_in with `m_index = ctz(mask)` in place of `m_index += ctz(mask)`.
next_bit_in_assign(index, mask, w) ==
  LET i1 == Int8(index + 1) IN
  IF i1 # index_end(w)
    THEN {IF m1 = {} THEN index_end(w) ELSE Int8(ctz(m1)) :
            m1 \in ShrAssign(mask, i1, w)}
    ELSE {i1}

\* Index::next_bit_in(T mask): the values m_index can have on return.
next_bit_in(index, mask, w) ==
  LET i1 == Int8(index + 1) IN
  IF i1 # index_end(w)
    THEN {IF m1 = {} THEN index_end(w) ELSE Int8(i1 + ctz(m1)) :
            m1 \in ShrAssign(mask, i1, w)}
    ELSE {i1}

\* prev_bit_in with `m_index -= clz(mask)` in place of
\* `m_index -= clz(mask) + 1`.
prev_bit_in_off_by_one(index, mask, w) ==
  {IF m1 = {} THEN index_pre_begin ELSE Int8(index - clz(m1, w)) :
     m1 \in ShlAssign(mask, index_end(w) - index, w)}

\* Index::prev_bit_in(T mask): the values m_index can have on return.
prev_bit_in(index, mask, w) ==
  {IF m1 = {} THEN index_pre_begin ELSE Int8(index - (clz(m1, w) + 1)) :
     m1 \in ShlAssign(mask, index_end(w) - index, w)}

\* next_bit_in without the test of ++m_index against N.
next_bit_in_traced_untested(index, mask, w) ==
  LET i1 == Int8(index + 1) IN
  {[index   |-> IF m1 = {} THEN index_end(w) ELSE Int8(i1 + ctz(m1)),
    shifts  |-> {i1},
    counted |-> IF m1 = {} THEN <<>> ELSE <<m1>>] :
     m1 \in ShrAssign(mask, i1, w)}

\* Index::next_bit_in(T mask) with what the call does on the way: the value
\* m_index can have on return, the count of the shift performed (mask >>=
\* m_index) if any, and the mask handed to ctz if any.
next_bit_in_traced(index, mask, w) ==
  LET i1 == Int8(index + 1) IN
  IF i1 # index_end(w)
    THEN {[index   |-> IF m1 = {} THEN index_end(w) ELSE Int8(i1 + ctz(m1)),
           shifts  |-> {i1},
           counted |-> IF m1 = {} THEN <<>> ELSE <<m1>>] :
            m1 \in ShrAssign(mask, i1, w)}
    ELSE {[index |-> i1, shifts |-> {}, counted |-> <<>>]}

\* Index::prev_bit_in(T mask), likewise: the count of mask <<= N - m_index
\* and the mask handed to clz if any.
prev_bit_in_traced(index, mask, w) ==
  {[index   |-> IF m1 = {} THEN index_pre_begin
                ELSE Int8(index - (clz(m1, w) + 1)),
    shifts  |-> {index_end(w) - index},
    counted |-> IF m1 = {} THEN <<>> ELSE <<m1>>] :
     m1 \in ShlAssign(mask, index_end(w) - index, w)}

\* may_call_prev_bit_in with `m_index >= 0` in place of `m_index > 0`.
may_call_prev_bit_in_ge(index) == index >= 0

\* Index::may_call_prev_bit_in().
may_call_prev_bit_in(index) == index > 0

---------------------------------------------------------------------------
(* The masks the model starts from. *)

RECURSIVE Sparse(_, _)
Sparse(w, k) ==
  IF k = 0 THEN {{}}
  ELSE LET S == Sparse(w, k - 1) IN S \cup {s \cup {i} : s \in S, i \in Bits(w)}

Masks(w) ==
  (SUBSET Bits(8)) \cup Sparse(w, MaxSetBits)
    \cup {BitNot(s, w) : s \in Sparse(w, MaxSetBits)}

---------------------------------------------------------------------------
(* Scanning a mask with an Index. *)

\* The values of m_index the Index is documented to hold: the positions
\* [0, N>, -1 (one before begin) and N (one past the end).
IndexRange(w) == index_pre_begin .. index_end(w)

\* A BitSet constructed from a mask and an Index constructed from a constant
\* (Index(IndexPOD i1)) in its documented range.
InitIndex ==
  /\ N \in Widths
  /\ m_bitmask \in Masks(N)
  /\ m_index \in IndexRange(N)
  /\ m_mask = {}
  /\ pc = "index"
  /\ yielded = <<>>
  /\ mutations = 0
  /\ op = "Index"
  /\ from = m_index
  /\ ret = FALSE
  /\ NoCall

\* index.next_bit_in(bitset), on an Index in its documented range that does
\* not equal index_end ("Don't call this function when Index equals
\* index_end").
NextBitIn ==
  /\ pc = "index"
  /\ m_index \in IndexRange(N)
  /\ m_index # index_end(N)
  /\ m_index' \in next_bit_in(m_index, m_bitmask, N)
  /\ from' = m_index
  /\ op' = "next_bit_in"
  /\ ret' = FALSE
  /\ UNCHANGED <<N, m_bitmask, m_mask, pc, yielded, mutations>>
  /\ UNCHANGED <<arg, before, result, p, bit>>

\* index.prev_bit_in(bitset), on an Index in its documented range that does
\* not equal index_pre_begin.  The call at index_begin, which the source
\* comment forbids and the specification allows, is part of the model.
PrevBitIn ==
  /\ pc = "index"
  /\ m_index \in IndexRange(N)
  /\ m_index # index_pre_begin
  /\ m_index' \in prev_bit_in(m_index, m_bitmask, N)
  /\ from' = m_index
  /\ op' = "prev_bit_in"
  /\ ret' = FALSE
  /\ UNCHANGED <<N, m_bitmask, m_mask, pc, yielded, mutations>>
  /\ UNCHANGED <<arg, before, result, p, bit>>

\* index.may_call_prev_bit_in().
MayCallPrevBitIn ==
  /\ pc = "index"
  /\ m_index \in IndexRange(N)
  /\ ret' = may_call_prev_bit_in(m_index)
  /\ from' = m_index
  /\ op' = "may_call_prev_bit_in"
  /\ UNCHANGED <<N, m_bitmask, m_index, m_mask, pc, yielded, mutations>>
  /\ UNCHANGED <<arg, before, result, p, bit>>

NextIndex == NextBitIn \/ PrevBitIn \/ MayCallPrevBitIn

SpecIndex == InitIndex /\ [][NextIndex]_vars

---------------------------------------------------------------------------
(* BitSet<T> and bitset::const_iterator<T>. *)

\* BitSet::count().
count(bitmask) == popcount(bitmask)

\* BitSet::mask2index(T mask).
mask2index(mask) == ctz(mask)

\* index2mask with the int `1 << i1()` in place of `static_cast<T>(1) << i1()`:
\* the shift is done at the width of int whatever T is.
index2mask_int(i, w) == Trunc(Shl({0}, i, PromotedWidth(8)), w)

\* BitSet::index2mask(Index i1): static_cast<T>(1) << i1(), returned as T.
index2mask(i, w) == Trunc(Shl({0}, i, PromotedWidth(w)), w)

\* BitSet::size().
size(w) == w

\* BitSet::all(): !~m_bitmask.
all(bitmask, w) == BitNot(bitmask, PromotedWidth(w)) = {}

\* BitSet::any(): m_bitmask converted to bool.
any(bitmask) == bitmask # {}

\* BitSet::none(): !m_bitmask.
none(bitmask) == bitmask = {}

\* BitSet::test(Index const& i1): m_bitmask & index2mask(i1), as bool.
test(bitmask, i, w) == BitAnd(bitmask, index2mask(i, w)) # {}

\* lssb with `m_bitmask & (m_bitmask - 1)` in place of
\* `m_bitmask & -m_bitmask`.
lssb_minus_one(bitmask, w) ==
  Trunc(BitAnd(bitmask, Dec(bitmask, PromotedWidth(w))), w)

\* BitSet::lssb(): the mask of the BitSet made from m_bitmask & -m_bitmask.
lssb(bitmask, w) ==
  Trunc(BitAnd(bitmask, Neg(bitmask, PromotedWidth(w))), w)

\* lssbi returning index_pre_begin for the zero mask, as mssbi does.
lssbi_pre_begin(bitmask, w) ==
  Int8(IF bitmask # {} THEN ctz(bitmask) ELSE index_pre_begin)

\* BitSet::lssbi():
\* static_cast<int8_t>(m_bitmask ? ctz(m_bitmask) : static_cast<int>(size())).
lssbi(bitmask, w) == Int8(IF bitmask # {} THEN ctz(bitmask) ELSE size(w))

\* mssb returning the lowest set bit, as lssb does.
mssb_as_lssb(bitmask, w) == {lssb(bitmask, w)}

\* BitSet::mssb(): the masks of the BitSet made from ::utils::mssb(m_bitmask).
mssb(bitmask, w) == {Trunc(r, w) : r \in utils_mssb(bitmask, w)}

\* BitSet::mssbi(): static_cast<int8_t>(log2(m_bitmask)), the values it can
\* return.
mssbi(bitmask, w) == {Int8(r) : r \in log2(bitmask, w)}

\* is_single_bit without the test for zero: (m & (m - 1)) == 0.
is_single_bit_zero_unchecked(bitmask, w) ==
  BitAnd(bitmask, Dec(bitmask, PromotedWidth(w))) = {}

\* BitSet::is_single_bit(): is_power_of_two(m_bitmask).
is_single_bit(bitmask, w) == is_power_of_two(bitmask, w)

\* The decrement taking two steps.
index_pre_decrement_by_two(i) == Int8(i - 2)

\* Index::operator--(): --m_index on the int8_t.
index_pre_decrement(i) == Int8(i - 1)

\* The selection with the two characters exchanged.
to_string_char_swapped(bitmask, i, w, zero, one) ==
  IF test(bitmask, i, w) THEN zero ELSE one

\* to_string: the character written for bit i, test(i) ? one : zero.
to_string_char(bitmask, i, w, zero, one) ==
  IF test(bitmask, i, w) THEN one ELSE zero

\* operator^ keeping the bits of m1 that are not in m2.
operator_xor_difference(m1, m2, w) == Trunc(m1 \ m2, w)

\* operator|(m1, m2): BitSet(m1.m_bitmask | m2.m_bitmask).
operator_or(m1, m2, w) == Trunc(BitOr(m1, m2), w)

\* operator&(m1, m2): BitSet(m1.m_bitmask & m2.m_bitmask).
operator_and(m1, m2, w) == Trunc(BitAnd(m1, m2), w)

\* operator^(m1, m2): BitSet(m1.m_bitmask ^ m2.m_bitmask).
operator_xor(m1, m2, w) == Trunc(BitXor(m1, m2), w)

\* operator==(m1, m2): m1.m_bitmask == m2.m_bitmask.
operator_eq(m1, m2) == m1 = m2

\* BitSet::operator<<=(n): m_bitmask <<= n, the masks it can leave.
shift_left_assign(bitmask, n, w) == ShlAssign(bitmask, n, w)

\* BitSet::operator>>=(n): m_bitmask >>= n, the masks it can leave.
shift_right_assign(bitmask, n, w) == ShrAssign(bitmask, n, w)

\* BitSet::operator--(): --m_bitmask.
pre_decrement(bitmask, w) == Trunc(Dec(bitmask, PromotedWidth(w)), w)

\* BitSet::operator+=(n): m_bitmask += n.
add_assign(bitmask, n, w) == Trunc(Add(bitmask, n, PromotedWidth(w)), w)

\* BitSet::operator-=(n): m_bitmask -= n.
sub_assign(bitmask, n, w) == Trunc(Sub(bitmask, n, PromotedWidth(w)), w)

\* BitSet::operator+(n) const: BitSet(m_bitmask + n).
operator_plus(bitmask, n, w) == Trunc(Add(bitmask, n, PromotedWidth(w)), w)

\* BitSet::operator-(n) const: BitSet(m_bitmask - n).
operator_minus(bitmask, n, w) == Trunc(Sub(bitmask, n, PromotedWidth(w)), w)

\* BitSet::operator++(int) const and operator--(int) const: prev_value, the
\* BitSet returned.
post_value(bitmask) == bitmask

\* BitSet::operator++(int) const and operator--(int) const: the mask of the
\* receiver afterwards.  Both are const members, in which m_bitmask is
\* read-only: the ++m_bitmask and --m_bitmask of their bodies are rejected
\* and the receiver is not written.
post_receiver(bitmask) == bitmask

\* BitSet::reset(): m_bitmask = 0.
reset_all == {}

\* BitSet::set(): m_bitmask = static_cast<T>(-1).
set_all(w) == Trunc(Neg({0}, PromotedWidth(w)), w)

\* BitSet::reset(Index const& i1): m_bitmask &= ~index2mask(i1).
reset_bit(bitmask, i, w) ==
  Trunc(BitAnd(bitmask, BitNot(index2mask(i, w), PromotedWidth(w))), w)

\* BitSet::set(Index const& i1): m_bitmask |= index2mask(i1).
set_bit(bitmask, i, w) == Trunc(BitOr(bitmask, index2mask(i, w)), w)

\* flip(Index) with |= in place of ^=.
flip_bit_or(bitmask, i, w) == Trunc(BitOr(bitmask, index2mask(i, w)), w)

\* BitSet::flip(Index const& i1): m_bitmask ^= index2mask(i1).
flip_bit(bitmask, i, w) == Trunc(BitXor(bitmask, index2mask(i, w)), w)

\* BitSet::operator++(): ++m_bitmask.
pre_increment(bitmask, w) == Trunc(Inc(bitmask, PromotedWidth(w)), w)

\* An iterator that holds a reference to the BitSet's m_bitmask in place
\* of a copy.
iterator_mask_by_reference(own, source) == source

\* The mask an iterator reads in operator!=, operator* and operator++: its
\* own member m_mask, declared `T m_mask`, not the BitSet it was made from.
iterator_mask(own, source) == own

\* const_iterator(T bitmask), as BitSet::begin() calls it with m_bitmask:
\* the iterator's m_mask is a member of type T, a copy of the argument.
begin(bitmask) == bitmask

\* const_iterator(), as BitSet::end() calls it.
end == {}

\* const_iterator::operator!=.
iterator_ne(mask1, mask2) == mask1 # mask2

\* operator++ with `m_mask - 1` in place of `m_mask &= m_mask - 1`.
increment_minus_one(mask, w) == Trunc(Dec(mask, PromotedWidth(w)), w)

\* const_iterator::operator++: m_mask &= m_mask - 1.
increment(mask, w) ==
  Trunc(BitAnd(mask, Dec(mask, PromotedWidth(w))), w)

\* operator* returning the most significant bit.
dereference_highest(mask, w) == IF mask = {} THEN {} ELSE {Max(mask)}

\* const_iterator::operator*: BitSet<T>{m_mask & -m_mask}.
dereference(mask, w) ==
  Trunc(BitAnd(mask, Neg(mask, PromotedWidth(w))), w)

---------------------------------------------------------------------------
(* The client loop over a BitSet bs:                                       *)
(*   for (auto it = bs.begin(); it != bs.end(); ++it) { BitSet b = *it; }  *)

InitIter ==
  /\ N \in Widths
  /\ m_bitmask \in Masks(N)
  /\ m_index = index_pre_begin
  /\ m_mask = {}
  /\ pc = "begin"
  /\ yielded = <<>>
  /\ mutations = 0
  /\ op = "BitSet"
  /\ from = index_pre_begin
  /\ ret = FALSE
  /\ NoCall

\* it = bs.begin()
Begin ==
  /\ pc = "begin"
  /\ m_mask' = begin(m_bitmask)
  /\ pc' = "test"
  /\ op' = "begin"
  /\ UNCHANGED <<N, m_bitmask, m_index, yielded, mutations, from, ret>>
  /\ UNCHANGED <<arg, before, result, p, bit>>

\* it != bs.end()
LoopTest ==
  /\ pc = "test"
  /\ pc' = IF iterator_ne(iterator_mask(m_mask, m_bitmask), end) THEN "body" ELSE "done"
  /\ op' = "operator!="
  /\ UNCHANGED <<N, m_bitmask, m_index, m_mask, yielded, mutations, from, ret>>
  /\ UNCHANGED <<arg, before, result, p, bit>>

\* BitSet b = *it
Dereference ==
  /\ pc = "body"
  /\ yielded' = Append(yielded, dereference(iterator_mask(m_mask, m_bitmask), N))
  /\ pc' = "increment"
  /\ op' = "operator*"
  /\ UNCHANGED <<N, m_bitmask, m_index, m_mask, mutations, from, ret>>
  /\ UNCHANGED <<arg, before, result, p, bit>>

\* ++it
Increment ==
  /\ pc = "increment"
  /\ m_mask' = increment(iterator_mask(m_mask, m_bitmask), N)
  /\ pc' = "test"
  /\ op' = "operator++"
  /\ UNCHANGED <<N, m_bitmask, m_index, yielded, mutations, from, ret>>
  /\ UNCHANGED <<arg, before, result, p, bit>>

NextIter == Begin \/ LoopTest \/ Dereference \/ Increment

SpecIter == InitIter /\ [][NextIter]_vars

---------------------------------------------------------------------------
(* The same loop, with the client changing the BitSet before, during and   *)
(* after it.                                                               *)

\* The BitSets this client starts from: none, all, the two outer bits, and
\* the mask 0x46.
SnapMasks(w) == {{}, Bits(w), {0, w - 1}, {1, 2, 6}}

\* The indices this client passes to set, reset and flip.
SnapIndices(w) == {0, w - 1}

InitSnap ==
  /\ N \in Widths
  /\ m_bitmask \in SnapMasks(N)
  /\ m_index = index_pre_begin
  /\ m_mask = {}
  /\ pc = "begin"
  /\ yielded = <<>>
  /\ mutations = 0
  /\ op = "BitSet"
  /\ from = index_pre_begin
  /\ ret = FALSE
  /\ NoCall

\* What every mutating call leaves alone: the iterator and the loop.
Mutated(name, bitmask) ==
  /\ mutations < MaxMutations
  /\ mutations' = mutations + 1
  /\ m_bitmask' = bitmask
  /\ op' = name
  /\ UNCHANGED <<N, m_index, m_mask, pc, yielded, from, ret>>
  /\ UNCHANGED <<arg, before, result, p, bit>>

\* bs.reset()
ResetAll == Mutated("reset", reset_all)

\* bs.set()
SetAll == Mutated("set", set_all(N))

\* bs.reset(i)
ResetBit == \E i \in SnapIndices(N) : Mutated("reset", reset_bit(m_bitmask, i, N))

\* bs.set(i)
SetBit == \E i \in SnapIndices(N) : Mutated("set", set_bit(m_bitmask, i, N))

\* bs.flip(i)
FlipBit == \E i \in SnapIndices(N) : Mutated("flip", flip_bit(m_bitmask, i, N))

\* bs <<= 1
ShiftLeft == \E m1 \in ShlAssign(m_bitmask, 1, N) : Mutated("operator<<=", m1)

\* ++bs
PreIncrement == Mutated("BitSet::operator++", pre_increment(m_bitmask, N))

Mutate ==
  ResetAll \/ SetAll \/ ResetBit \/ SetBit \/ FlipBit \/ ShiftLeft \/ PreIncrement

NextSnap == NextIter \/ Mutate

SpecSnap == InitSnap /\ [][NextSnap]_vars

---------------------------------------------------------------------------
(* The accessors of a BitSet. *)

InitQuery ==
  /\ N \in Widths
  /\ m_bitmask \in Masks(N)
  /\ m_index = index_pre_begin
  /\ m_mask = {}
  /\ pc = "query"
  /\ yielded = <<>>
  /\ mutations = 0
  /\ op = "BitSet"
  /\ from = index_pre_begin
  /\ ret = FALSE
  /\ NoCall

\* One call of an accessor on the BitSet constructed: what it returns, and
\* what every accessor leaves alone (the BitSet).
Returned(name, i, value) ==
  /\ pc = "query"
  /\ pc' = "returned"
  /\ op' = name
  /\ from' = i
  /\ ret' = value
  /\ UNCHANGED <<N, m_bitmask, m_index, m_mask, yielded, mutations>>
  /\ UNCHANGED <<arg, before, result, p, bit>>

\* bs.all()
All == Returned("all", index_pre_begin, all(m_bitmask, N))

\* bs.any()
Any == Returned("any", index_pre_begin, any(m_bitmask))

\* bs.none()
None == Returned("none", index_pre_begin, none(m_bitmask))

\* bs.count()
Count == Returned("count", index_pre_begin, count(m_bitmask))

\* bs.test(Index(i)), for an index in [0, N>
Test == \E i \in Bits(N) : Returned("test", i, test(m_bitmask, i, N))

\* bs.lssb()
Lssb == Returned("lssb", index_pre_begin, lssb(m_bitmask, N))

\* bs.lssbi()
Lssbi == Returned("lssbi", index_pre_begin, lssbi(m_bitmask, N))

\* bs.mssb()
Mssb ==
  \E r \in mssb(m_bitmask, N) : Returned("mssb", index_pre_begin, r)

\* bs.mssbi()
Mssbi ==
  \E r \in mssbi(m_bitmask, N) : Returned("mssbi", index_pre_begin, r)

\* bs.is_single_bit()
IsSingleBit ==
  Returned("is_single_bit", index_pre_begin, is_single_bit(m_bitmask, N))

NextQuery ==
  \/ All \/ Any \/ None \/ Count \/ Test \/ Lssb \/ Lssbi
  \/ Mssb \/ Mssbi \/ IsSingleBit

SpecQuery == InitQuery /\ [][NextQuery]_vars

---------------------------------------------------------------------------
(* One call of to_string(zero, one), one action per statement of its loop. *)
(* arg holds <<zero, one>>, result the string, p the offset of the string  *)
(* iterator, bit the Index of the loop and before the indices the loop has *)
(* tested, in order.                                                       *)

\* The character pairs passed: the default arguments and another pair.
DefaultChars == <<"0", "1">>

CharPairs == {DefaultChars, <<".", "#">>}

\* The masks converted: every mask of the low byte and the snapshot family.
StringMasks(w) == (SUBSET Bits(8)) \cup SnapMasks(w)

InitString ==
  /\ N \in Widths
  /\ m_bitmask \in StringMasks(N)
  /\ m_index = index_pre_begin
  /\ m_mask = {}
  /\ pc = "to_string"
  /\ yielded = <<>>
  /\ mutations = 0
  /\ op = "BitSet"
  /\ from = index_pre_begin
  /\ ret = FALSE
  /\ arg \in CharPairs
  /\ before = <<>>
  /\ result = <<>>
  /\ p = 0
  /\ bit = 0

\* std::string result(size(), zero); p = result.begin(); bit = index_end<T>;
ToStringEnter ==
  /\ pc = "to_string"
  /\ result' = [k \in 1 .. size(N) |-> arg[1]]
  /\ p' = 0
  /\ bit' = index_end(N)
  /\ pc' = "do"
  /\ UNCHANGED <<N, m_bitmask, m_index, m_mask, yielded, mutations>>
  /\ UNCHANGED <<op, from, ret, arg, before>>

\* The body of the loop: write (test(--bit) ? one : zero) through p and
\* advance p.  A write at or past result.end() is an overrun.
ToStringBody ==
  /\ pc = "do"
  /\ bit' = index_pre_decrement(bit)
  /\ before' = Append(before, bit')
  /\ IF p < Len(result)
       THEN /\ result' = [result EXCEPT
                           ![p + 1] = to_string_char(m_bitmask, bit', N,
                                                     arg[1], arg[2])]
            /\ p' = p + 1
            /\ pc' = "while"
       ELSE /\ pc' = "overrun"
            /\ UNCHANGED <<result, p>>
  /\ UNCHANGED <<N, m_bitmask, m_index, m_mask, yielded, mutations>>
  /\ UNCHANGED <<op, from, ret, arg>>

\* while (bit != index_begin)
ToStringWhile ==
  /\ pc = "while"
  /\ pc' = IF bit # index_begin THEN "do" ELSE "return"
  /\ UNCHANGED <<N, m_bitmask, m_index, m_mask, yielded, mutations>>
  /\ UNCHANGED <<op, from, ret, arg, before, result, p, bit>>

\* return result;
ToStringReturn ==
  /\ pc = "return"
  /\ pc' = "returned"
  /\ op' = "to_string"
  /\ ret' = result
  /\ UNCHANGED <<N, m_bitmask, m_index, m_mask, yielded, mutations>>
  /\ UNCHANGED <<from, arg, before, result, p, bit>>

NextString ==
  ToStringEnter \/ ToStringBody \/ ToStringWhile \/ ToStringReturn

SpecString == InitString /\ [][NextString]_vars

---------------------------------------------------------------------------
(* The evaluation of (a & b) | (a ^ b) == (a | b) on two BitSets, one      *)
(* action per operator call.  m_bitmask is the mask of a, arg the mask of  *)
(* b, before the two masks as constructed and yielded the temporaries.     *)

\* The masks of the second operand.
OperandMasks(w) == SnapMasks(w) \cup {{3, w - 2}, Bits(w) \ {0}}

InitAlgebra ==
  /\ N \in Widths
  /\ m_bitmask \in Masks(N)
  /\ m_index = index_pre_begin
  /\ m_mask = {}
  /\ pc = "and"
  /\ yielded = <<>>
  /\ mutations = 0
  /\ op = "BitSet"
  /\ from = index_pre_begin
  /\ ret = FALSE
  /\ arg \in OperandMasks(N)
  /\ before = <<m_bitmask, arg>>
  /\ result = <<>>
  /\ p = 0
  /\ bit = 0

\* One operator call of the expression: the temporary it returns is kept,
\* the operands and everything else are left alone.
Evaluated(at, value, then) ==
  /\ pc = at
  /\ yielded' = Append(yielded, value)
  /\ pc' = then
  /\ UNCHANGED <<N, m_bitmask, m_index, m_mask, mutations, op, from, ret>>
  /\ UNCHANGED <<arg, before, result, p, bit>>

\* a & b
OperatorAnd == Evaluated("and", operator_and(m_bitmask, arg, N), "xor")

\* a ^ b
OperatorXor == Evaluated("xor", operator_xor(m_bitmask, arg, N), "or_of")

\* (a & b) | (a ^ b)
OperatorOrOf ==
  Evaluated("or_of", operator_or(yielded[1], yielded[2], N), "or")

\* a | b
OperatorOr == Evaluated("or", operator_or(m_bitmask, arg, N), "eq")

\* ... == ...
OperatorEq ==
  /\ pc = "eq"
  /\ pc' = "returned"
  /\ op' = "operator=="
  /\ ret' = operator_eq(yielded[3], yielded[4])
  /\ UNCHANGED <<N, m_bitmask, m_index, m_mask, yielded, mutations, from>>
  /\ UNCHANGED <<arg, before, result, p, bit>>

NextAlgebra ==
  OperatorAnd \/ OperatorXor \/ OperatorOrOf \/ OperatorOr \/ OperatorEq

SpecAlgebra == InitAlgebra /\ [][NextAlgebra]_vars

---------------------------------------------------------------------------
(* One call of a shift or of an arithmetic operator on a BitSet.  before   *)
(* holds the mask the BitSet had, arg the operand of the call and ret the  *)
(* mask of the BitSet the call returns.                                    *)

\* The shift counts passed (unsigned int n).
ShiftCounts(w) == {0, 1, 7, 8, w - 1, w, w + 1, 31, 32, 64}

\* The amounts added and subtracted (mask_type n): 0, 1, 3, the top bit and
\* all ones.
Amounts(w) == {{}, {0}, {0, 1}, {w - 1}, Bits(w)}

InitArith ==
  /\ N \in Widths
  /\ m_bitmask \in Masks(N)
  /\ m_index = index_pre_begin
  /\ m_mask = {}
  /\ pc = "call"
  /\ yielded = <<>>
  /\ mutations = 0
  /\ op = "BitSet"
  /\ from = index_pre_begin
  /\ ret = FALSE
  /\ NoCall

\* One call: the operand passed, the mask the receiver is left with and the
\* mask of the BitSet returned.
Called(name, operand, bitmask, value) ==
  /\ pc = "call"
  /\ pc' = "returned"
  /\ op' = name
  /\ arg' = operand
  /\ before' = <<m_bitmask>>
  /\ m_bitmask' = bitmask
  /\ ret' = value
  /\ UNCHANGED <<N, m_index, m_mask, yielded, mutations, from>>
  /\ UNCHANGED <<result, p, bit>>

\* bs <<= n
ShiftLeftAssign ==
  \E n \in ShiftCounts(N) :
    \E m1 \in shift_left_assign(m_bitmask, n, N) :
      Called("operator<<=", n, m1, m1)

\* bs >>= n
ShiftRightAssign ==
  \E n \in ShiftCounts(N) :
    \E m1 \in shift_right_assign(m_bitmask, n, N) :
      Called("operator>>=", n, m1, m1)

\* --bs
PreDecrement ==
  LET m1 == pre_decrement(m_bitmask, N) IN Called("operator--", {0}, m1, m1)

\* bs--
PostDecrement ==
  Called("operator--(int)", {0}, post_receiver(m_bitmask),
         post_value(m_bitmask))

\* ++bs
PreIncrementBy1 ==
  LET m1 == pre_increment(m_bitmask, N) IN Called("operator++", {0}, m1, m1)

\* bs++
PostIncrement ==
  Called("operator++(int)", {0}, post_receiver(m_bitmask),
         post_value(m_bitmask))

\* bs += n
AddAssign ==
  \E n \in Amounts(N) :
    LET m1 == add_assign(m_bitmask, n, N) IN Called("operator+=", n, m1, m1)

\* bs -= n
SubAssign ==
  \E n \in Amounts(N) :
    LET m1 == sub_assign(m_bitmask, n, N) IN Called("operator-=", n, m1, m1)

\* bs + n
OperatorPlus ==
  \E n \in Amounts(N) :
    Called("operator+", n, m_bitmask, operator_plus(m_bitmask, n, N))

\* bs - n
OperatorMinus ==
  \E n \in Amounts(N) :
    Called("operator-", n, m_bitmask, operator_minus(m_bitmask, n, N))

NextArith ==
  \/ ShiftLeftAssign \/ ShiftRightAssign
  \/ PreDecrement \/ PostDecrement \/ PreIncrementBy1 \/ PostIncrement
  \/ AddAssign \/ SubAssign \/ OperatorPlus \/ OperatorMinus

SpecArith == InitArith /\ [][NextArith]_vars

---------------------------------------------------------------------------
(* One comparison of two Index objects of a BitSet of width N.  m_index    *)
(* and bit are the two objects, before the two positions they were made    *)
(* for.                                                                    *)

\* The positions of width w: pre-begin, the bits and end.
Positions(w) == -1 .. w

InitOrder ==
  /\ N \in IndexWidths
  /\ m_bitmask = {}
  /\ \E q1 \in Positions(N), q2 \in Positions(N) :
       /\ before = <<q1, q2>>
       /\ m_index = IndexAt(q1)
       /\ bit = IndexAt(q2)
  /\ m_mask = {}
  /\ pc = "compare"
  /\ yielded = <<>>
  /\ mutations = 0
  /\ op = "Index"
  /\ from = index_pre_begin
  /\ ret = FALSE
  /\ arg = {}
  /\ result = <<>>
  /\ p = 0

\* One comparison of the two objects: what it returns.
Compared(name, value) ==
  /\ pc = "compare"
  /\ pc' = "returned"
  /\ op' = name
  /\ ret' = value
  /\ UNCHANGED <<N, m_bitmask, m_index, m_mask, yielded, mutations, from>>
  /\ UNCHANGED <<arg, before, result, p, bit>>

IndexEq == Compared("operator==", index_eq(m_index, bit))

IndexNe == Compared("operator!=", index_ne(m_index, bit))

IndexLt == Compared("operator<", index_lt(m_index, bit))

IndexLe == Compared("operator<=", index_le(m_index, bit))

IndexGt == Compared("operator>", index_gt(m_index, bit))

IndexGe == Compared("operator>=", index_ge(m_index, bit))

NextOrder == IndexEq \/ IndexNe \/ IndexLt \/ IndexLe \/ IndexGt \/ IndexGe

SpecOrder == InitOrder /\ [][NextOrder]_vars

---------------------------------------------------------------------------
(* Calls of set(i), reset(i) and flip(i) on a BitSet with one Index i.     *)
(* m_index is the Index passed; before holds, for each call made, its name *)
(* and the mask the BitSet had when it was made.                           *)

\* The indices passed: the ends of the mask and the bits next to the widths
\* of the narrower types.
ProbeIndices(w) == {0, 1, 7, 8, 31, 32, w - 1} \cap Bits(w)

InitBits ==
  /\ N \in Widths
  /\ m_bitmask \in StringMasks(N)
  /\ m_index \in ProbeIndices(N)
  /\ m_mask = {}
  /\ pc = "call"
  /\ yielded = <<>>
  /\ mutations = 0
  /\ op = "BitSet"
  /\ from = index_pre_begin
  /\ ret = FALSE
  /\ NoCall

\* One call with the Index: the mask it leaves.
BitCalled(name, bitmask) ==
  /\ mutations < MaxMutations
  /\ mutations' = mutations + 1
  /\ before' = Append(before, [call |-> name, mask |-> m_bitmask])
  /\ m_bitmask' = bitmask
  /\ op' = name
  /\ UNCHANGED <<N, m_index, m_mask, pc, yielded, from, ret>>
  /\ UNCHANGED <<arg, result, p, bit>>

\* bs.set(i)
SetIndex == BitCalled("set", set_bit(m_bitmask, m_index, N))

\* bs.reset(i)
ResetIndex == BitCalled("reset", reset_bit(m_bitmask, m_index, N))

\* bs.flip(i)
FlipIndex == BitCalled("flip", flip_bit(m_bitmask, m_index, N))

NextBits == SetIndex \/ ResetIndex \/ FlipIndex

SpecBits == InitBits /\ [][NextBits]_vars

---------------------------------------------------------------------------
(* The two forward traversals of one BitSet, one after the other: an Index *)
(* started at index_pre_begin and advanced with next_bit_in until it       *)
(* equals index_end, then a const_iterator from begin() to end().  before  *)
(* holds the positions the Index took, yielded the BitSets the iterator    *)
(* gave.                                                                   *)

InitTraverse ==
  /\ N \in Widths
  /\ m_bitmask \in Masks(N)
  /\ m_index = index_pre_begin
  /\ m_mask = {}
  /\ pc = "scan"
  /\ yielded = <<>>
  /\ mutations = 0
  /\ op = "Index"
  /\ from = index_pre_begin
  /\ ret = FALSE
  /\ NoCall

\* index.next_bit_in(bitset) while the Index does not equal index_end; a
\* position below index_end is one the traversal produces.
ScanNext ==
  /\ pc = "scan"
  /\ index_ne(m_index, index_end(N))
  /\ m_index' \in next_bit_in(m_index, m_bitmask, N)
  /\ before' = IF index_ne(m_index', index_end(N))
                 THEN Append(before, m_index')
                 ELSE before
  /\ from' = m_index
  /\ op' = "next_bit_in"
  /\ UNCHANGED <<N, m_bitmask, m_mask, pc, yielded, mutations, ret>>
  /\ UNCHANGED <<arg, result, p, bit>>

\* The Index equals index_end: the first traversal is over and the second
\* starts.
ScanEnd ==
  /\ pc = "scan"
  /\ index_eq(m_index, index_end(N))
  /\ pc' = "begin"
  /\ op' = "operator=="
  /\ UNCHANGED <<N, m_bitmask, m_index, m_mask, yielded, mutations, from, ret>>
  /\ UNCHANGED <<arg, before, result, p, bit>>

NextTraverse == ScanNext \/ ScanEnd \/ NextIter

SpecTraverse == InitTraverse /\ [][NextTraverse]_vars

---------------------------------------------------------------------------
(* Sequences of next_bit_in and prev_bit_in calls on one Index that starts *)
(* at index_pre_begin or index_end, next_bit_in called only while the      *)
(* Index does not equal index_end and prev_bit_in only while               *)
(* may_call_prev_bit_in() is true.  arg holds the counts of the shifts the *)
(* last call performed and before the masks it handed to ctz or clz.       *)

InitWalk ==
  /\ N \in Widths
  /\ m_bitmask \in Masks(N)
  /\ m_index \in {index_pre_begin, index_end(N)}
  /\ m_mask = {}
  /\ pc = "index"
  /\ yielded = <<>>
  /\ mutations = 0
  /\ op = "Index"
  /\ from = m_index
  /\ ret = FALSE
  /\ NoCall

\* One call on the Index: where it leaves the Index and what it did.
Walked(name, call) ==
  /\ m_index' = call.index
  /\ arg' = call.shifts
  /\ before' = call.counted
  /\ from' = m_index
  /\ op' = name
  /\ UNCHANGED <<N, m_bitmask, m_mask, pc, yielded, mutations, ret>>
  /\ UNCHANGED <<result, p, bit>>

\* if (index != index_end<T>) index.next_bit_in(bitset)
WalkNext ==
  /\ index_ne(m_index, index_end(N))
  /\ \E call \in next_bit_in_traced(m_index, m_bitmask, N) :
       Walked("next_bit_in", call)

\* if (index.may_call_prev_bit_in()) index.prev_bit_in(bitset)
WalkPrev ==
  /\ may_call_prev_bit_in(m_index)
  /\ \E call \in prev_bit_in_traced(m_index, m_bitmask, N) :
       Walked("prev_bit_in", call)

NextWalk == WalkNext \/ WalkPrev

SpecWalk == InitWalk /\ [][NextWalk]_vars

---------------------------------------------------------------------------
(* Properties of the Index scans. *)

\* The smallest i with pos < i < w and bit i of mask set, or w when there is
\* none.
FirstSetAbove(mask, pos, w) ==
  LET S == {i \in mask : pos < i /\ i < w} IN IF S = {} THEN w ELSE Min(S)

\* The largest i with 0 <= i < pos and bit i of mask set, or -1 when there is
\* none.
LastSetBelow(mask, pos) ==
  LET S == {i \in mask : 0 <= i /\ i < pos} IN IF S = {} THEN -1 ELSE Max(S)

\* C1: next_bit_in called at position p in {-1} \cup [0, N) leaves the
\* position at the smallest set bit above p, or at N (end) when there is
\* none; over the mask 0x46 of width 8 the calls from pre-begin give
\* 1, 2, 6, end.
C1_NextBitIn ==
  op = "next_bit_in" =>
    /\ from \in -1 .. (N - 1)
    /\ m_index = FirstSetAbove(m_bitmask, from, N)
    /\ (N = 8 /\ m_bitmask = {1, 2, 6}) =>
         /\ from = -1 => m_index = 1
         /\ from = 1 => m_index = 2
         /\ from = 2 => m_index = 6
         /\ from = 6 => m_index = 8

C1_Witness ==
  /\ op = "next_bit_in"
  /\ N = 8
  /\ m_bitmask = {1, 2, 6}
  /\ from = 2
  /\ m_index = 6

\* C2: prev_bit_in called at position p in (0, N] leaves the position at
\* the largest set bit below p, or at -1 (pre-begin) when there is none;
\* over the mask 0x62 of width 8 the calls from end give 6, 5, 1, pre-begin.
C2_PrevBitIn ==
  (op = "prev_bit_in" /\ from \in 1 .. N) =>
    /\ m_index = LastSetBelow(m_bitmask, from)
    /\ (N = 8 /\ m_bitmask = {1, 5, 6}) =>
         /\ from = 8 => m_index = 6
         /\ from = 6 => m_index = 5
         /\ from = 5 => m_index = 1
         /\ from = 1 => m_index = -1

C2_Witness ==
  /\ op = "prev_bit_in"
  /\ N = 8
  /\ m_bitmask = {1, 5, 6}
  /\ from = 5
  /\ m_index = 1

\* C3, as claimed: prev_bit_in called at position 0 yields pre-begin (-1)
\* for every mask and every width.
C3_PrevAtBeginAnyWidth ==
  (op = "prev_bit_in" /\ from = index_begin) => m_index = index_pre_begin

\* C3, amended: prev_bit_in called at position 0 yields pre-begin for every
\* mask when T is narrower than int (N = 8 or 16), where the shift by N is
\* done in int and the conversion back to T leaves zero.
C3_PrevAtBeginNarrow ==
  (op = "prev_bit_in" /\ from = index_begin /\ N < PromotedWidth(N)) =>
    m_index = index_pre_begin

C3_Witness ==
  /\ op = "prev_bit_in"
  /\ from = index_begin
  /\ N = 16
  /\ m_bitmask = Bits(16)
  /\ m_index = index_pre_begin

\* C4: may_call_prev_bit_in() is false at pre-begin (-1) and at begin (0)
\* and true at every position in [1, N-1] and at end (N).
C4_MayCallPrev ==
  op = "may_call_prev_bit_in" =>
    /\ from = -1 => ret = FALSE
    /\ from = 0 => ret = FALSE
    /\ from \in 1 .. N => ret = TRUE
    /\ ret = (from > 0)

C4_Witness ==
  /\ op = "may_call_prev_bit_in"
  /\ from = N
  /\ ret = TRUE

---------------------------------------------------------------------------
(* Properties of the iteration. *)

\* The OR of a sequence of masks.
RECURSIVE OrAll(_)
OrAll(seq) ==
  IF seq = <<>> THEN {} ELSE BitOr(Head(seq), OrAll(Tail(seq)))

\* The number of ++it the loop has done.
Advanced == IF pc = "increment" THEN Len(yielded) - 1 ELSE Len(yielded)

\* C5: the loop from begin() to end() over BitSet(m) stops after exactly
\* count(m) steps (the steps done and the bits left in the iterator always
\* add up to count(m), a step is possible until the loop is done, and the
\* loop is done only when nothing is left); every value it yields has
\* exactly one bit set, the bit indices are strictly increasing, and the OR
\* of all the values is BitSet(m).
C5_Iteration ==
  /\ \A k \in 1 .. Len(yielded) :
       /\ popcount(yielded[k]) = 1
       /\ yielded[k] \subseteq Bits(N)
  /\ \A k \in 1 .. (Len(yielded) - 1) :
       mask2index(yielded[k]) < mask2index(yielded[k + 1])
  /\ pc \in {"test", "body", "increment"} =>
       Advanced + popcount(m_mask) = count(m_bitmask)
  /\ pc # "done" => ENABLED NextIter
  /\ pc = "done" =>
       /\ Len(yielded) = count(m_bitmask)
       /\ OrAll(yielded) = m_bitmask

C5_Witness ==
  /\ pc = "done"
  /\ N = 64
  /\ m_bitmask = Bits(64) \ {5}
  /\ Len(yielded) = 63
  /\ yielded[6] = {6}

\* The names of the calls that change the BitSet, and of those made on the
\* iterator.
MutatorNames == {"reset", "set", "flip", "operator<<=", "BitSet::operator++"}
IteratorNames == {"operator!=", "operator*", "operator++"}

\* The bits the iterator has still to yield.
Residual == iterator_mask(m_mask, m_bitmask)

\* C6: an iterator obtained from begin() is a snapshot: a mutating call on
\* the BitSet leaves the iterator's residual mask and what the loop has
\* yielded unchanged, and comparing, dereferencing or advancing the
\* iterator leaves the BitSet unchanged.
C6_Snapshot ==
  [][ /\ (mutations' # mutations) =>
           (op' \in MutatorNames /\ Residual' = Residual /\ yielded' = yielded
              /\ pc' = pc)
      /\ (op' \in IteratorNames /\ mutations' = mutations) =>
           m_bitmask' = m_bitmask
    ]_vars

\* Half way through the loop over 0x46 the BitSet was reset: the iterator
\* still holds the bits 2 and 6.
C6_Witness ==
  /\ N = 8
  /\ pc = "increment"
  /\ op = "reset"
  /\ mutations = 2
  /\ m_bitmask = {}
  /\ yielded = << {1}, {2} >>
  /\ Residual = {2, 6}

---------------------------------------------------------------------------
(* Properties of the accessors. *)

\* C7: all() == (count() == N), none() == (count() == 0) and
\* any() == !none(), for every width and every mask; in particular all() is
\* true for the mask with all N bits set when T is narrower than int.
C7_AllAnyNone ==
  /\ op = "all" => ret = (count(m_bitmask) = N)
  /\ op = "none" => ret = (count(m_bitmask) = 0)
  /\ op = "any" => ret = ~none(m_bitmask)

\* C8: test(Index(i)) is true exactly when bit i of the mask is 1, that is
\* equals (m >> i) & 1, for every i in [0, N).
C8_Test ==
  op = "test" =>
    /\ from \in Bits(N)
    /\ ret = (BitAnd(Shr(m_bitmask, from), {0}) = {0})
    /\ ret = (from \in m_bitmask)

C8_Witness ==
  /\ op = "test"
  /\ N = 64
  /\ from = 63
  /\ m_bitmask = {63}
  /\ ret = TRUE

TrailingZeros(mask, w) ==
  Cardinality({j \in Bits(w) : \A k \in mask : j < k})

\* C10: lssbi() returns the number of trailing zero bits of a nonzero mask,
\* and an Index equal to index_end<T> (N) for the zero mask.
C10_Lssbi ==
  op = "lssbi" =>
    /\ m_bitmask # {} =>
         /\ ret = TrailingZeros(m_bitmask, N)
         /\ ret \in m_bitmask
    /\ m_bitmask = {} => ret = index_end(N)

C10_Witness ==
  /\ op = "lssbi"
  /\ N = 64
  /\ m_bitmask = {}
  /\ ret = 64

\* C11: mssbi() returns the index of the highest set bit, floor(log2(mask)),
\* for a nonzero mask, and an Index equal to index_pre_begin (-1) for the
\* zero mask.
C11_Mssbi ==
  op = "mssbi" =>
    /\ m_bitmask # {} =>
         /\ ret \in m_bitmask
         /\ \A i \in m_bitmask : i <= ret
    /\ m_bitmask = {} => ret = index_pre_begin

C15_IsSingleBit ==
  op = "is_single_bit" =>
    /\ ret = (count(m_bitmask) = 1)
    /\ m_bitmask = {} => ret = FALSE

C15_Witness ==
  /\ op = "is_single_bit"
  /\ N = 64
  /\ m_bitmask = {63}
  /\ ret = TRUE

\* C13: to_string(zero, one) returns exactly N characters, the character at
\* offset k being one if bit N-1-k of the mask is set and zero otherwise; the
\* loop tests the bit indices N-1, N-2, ..., 0 in that order, each once,
\* never writes past the string, and stops after index 0.
C13_ToString ==
  /\ pc # "overrun"
  /\ pc \in {"do", "while", "return", "returned"} =>
       /\ p <= N
       /\ before = [k \in 1 .. p |-> N - k]
       /\ Len(result) = N
  /\ pc \in {"to_string", "do", "while", "return"} => ENABLED NextString
  /\ op = "to_string" =>
       /\ p = N
       /\ Len(ret) = N
       /\ \A k \in 0 .. (N - 1) :
            ret[k + 1] = IF (N - 1 - k) \in m_bitmask THEN arg[2] ELSE arg[1]

C13_Witness ==
  /\ op = "to_string"
  /\ N = 16
  /\ m_bitmask = {1, 2, 6}
  /\ arg = <<".", "#">>
  /\ ret = <<".", ".", ".", ".", ".", ".", ".", ".",
             ".", "#", ".", ".", ".", "#", "#", ".">>

\* The number of characters of a string equal to c.
Occurrences(str, c) == Cardinality({k \in 1 .. Len(str) : str[k] = c})

\* C14: count() equals the number of '1' characters of the string returned
\* by to_string() called with its default arguments.
C14_CountOfOnes ==
  (op = "to_string" /\ arg = DefaultChars) =>
    count(m_bitmask) = Occurrences(ret, "1")

C14_Witness ==
  /\ op = "to_string"
  /\ arg = DefaultChars
  /\ N = 64
  /\ m_bitmask = {0, 63}
  /\ count(m_bitmask) = 2
  /\ Occurrences(ret, "1") = 2

\* C16: for all masks a and b of one width, (a & b) | (a ^ b) == (a | b) is
\* true, and after each of the operator calls both operands still hold the
\* masks they were constructed with.
C16_AndOrXor ==
  /\ m_bitmask = before[1]
  /\ arg = before[2]
  /\ op = "operator==" => ret = TRUE

C16_Witness ==
  /\ op = "operator=="
  /\ N = 64
  /\ m_bitmask = {63}
  /\ arg = {0, 63}
  /\ yielded = <<{63}, {0}, {0, 63}, {0, 63}>>
  /\ ret = TRUE

\* (m * 2^n) mod 2^w and floor(m / 2^n) on bit vectors.
TimesPow2(m, n, w) == {i + n : i \in m} \cap Bits(w)

DivPow2(m, n) == {i - n : i \in {j \in m : j >= n}}

\* C17 as stated: for every shift count n, n >= N included, `<<= n` leaves
\* (m * 2^n) mod 2^N and `>>= n` leaves floor(m / 2^n), with no bit outside
\* [0, N).
C17_ShiftAnyCount ==
  /\ op = "operator<<=" =>
       /\ m_bitmask = TimesPow2(before[1], arg, N)
       /\ m_bitmask \subseteq Bits(N)
  /\ op = "operator>>=" =>
       /\ m_bitmask = DivPow2(before[1], arg)
       /\ m_bitmask \subseteq Bits(N)

\* C17, amended: for every shift count n below the width of the promoted
\* mask (32 for N = 8 and 16, N for N = 32 and 64), `<<= n` leaves
\* (m * 2^n) mod 2^N and `>>= n` leaves floor(m / 2^n), which is 0 for
\* N <= n < 32; for every count no bit outside [0, N) is retained.
C17_ShiftDefinedCount ==
  /\ op = "operator<<=" =>
       /\ arg < PromotedWidth(N) => m_bitmask = TimesPow2(before[1], arg, N)
       /\ m_bitmask \subseteq Bits(N)
  /\ op = "operator>>=" =>
       /\ arg < PromotedWidth(N) => m_bitmask = DivPow2(before[1], arg)
       /\ m_bitmask \subseteq Bits(N)

C17_Witness ==
  /\ op = "operator>>="
  /\ N = 8
  /\ arg = 8
  /\ before = <<Bits(8)>>
  /\ m_bitmask = {}

\* The value of the bits of v in limb k (bits 16k .. 16k+15).
RECURSIVE ValueOf(_)
ValueOf(S) == IF S = {} THEN 0 ELSE LET x == Min(S) IN 2 ^ x + ValueOf(S \ {x})

LimbValue(v, k) ==
  ValueOf({i - 16 * k : i \in {j \in v : 16 * k <= j /\ j < 16 * k + 16}})

\* (a + b) mod 2^w, added limb by limb with carry c.
RECURSIVE PlusLimbs(_, _, _, _, _)
PlusLimbs(a, b, k, c, w) ==
  IF 16 * k >= w THEN {}
  ELSE LET s == LimbValue(a, k) + LimbValue(b, k) + c
       IN  {16 * k + i : i \in {j \in 0 .. 15 : (s \div (2 ^ j)) % 2 = 1}}
             \cup PlusLimbs(a, b, k + 1, s \div 65536, w)

PlusMod(a, b, w) == PlusLimbs(a, b, 0, 0, w) \cap Bits(w)

\* C18: += n, -= n, + n, - n and the pre and post forms of ++ and -- change
\* or compute the mask as (m + n) mod 2^N and (m - n) mod 2^N, so ++ on all
\* ones gives 0 and -- on 0 gives all ones; the post forms return the value
\* held before and leave the receiver changed by exactly 1.
C18_Arithmetic ==
  /\ op = "operator+=" => m_bitmask = PlusMod(before[1], arg, N)
  /\ op = "operator-=" => PlusMod(m_bitmask, arg, N) = before[1]
  /\ op = "operator+" =>
       /\ ret = PlusMod(before[1], arg, N)
       /\ m_bitmask = before[1]
  /\ op = "operator-" =>
       /\ PlusMod(ret, arg, N) = before[1]
       /\ m_bitmask = before[1]
  /\ op = "operator++" =>
       /\ m_bitmask = PlusMod(before[1], {0}, N)
       /\ before[1] = Bits(N) => m_bitmask = {}
  /\ op = "operator--" =>
       /\ PlusMod(m_bitmask, {0}, N) = before[1]
       /\ before[1] = {} => m_bitmask = Bits(N)
  /\ op = "operator++(int)" =>
       /\ ret = before[1]
       /\ m_bitmask = PlusMod(before[1], {0}, N)
  /\ op = "operator--(int)" =>
       /\ ret = before[1]
       /\ PlusMod(m_bitmask, {0}, N) = before[1]

\* C19: for every width N in {8, 16, 32, 64, 128} the positions -1, 0..N-1
\* and N are distinct Index values which the comparison operators order as
\* the positions are ordered; index_end<T> holds N and compares greater than
\* every valid position.
C19_IndexOrder ==
  /\ index_end(N) = N
  /\ \A q \in 0 .. (N - 1) : index_gt(index_end(N), IndexAt(q))
  /\ op = "operator==" => ret = (before[1] = before[2])
  /\ op = "operator!=" => ret = (before[1] # before[2])
  /\ op = "operator<" => ret = (before[1] < before[2])
  /\ op = "operator<=" => ret = (before[1] <= before[2])
  /\ op = "operator>" => ret = (before[1] > before[2])
  /\ op = "operator>=" => ret = (before[1] >= before[2])

\* The last call made and the one before it.
LastCall == before[Len(before)]

CallBeforeLast == before[Len(before) - 1]

\* C20: for an index i in [0, N), set(i) makes test(i) true, reset(i) makes
\* it false and flip(i) negates it, and each leaves every other bit of the
\* mask as it was; a second set(i) or reset(i) changes nothing and a second
\* flip(i) restores the mask.
C20_SetResetFlip ==
  /\ before # <<>> =>
       /\ op = "set" => test(m_bitmask, m_index, N)
       /\ op = "reset" => ~test(m_bitmask, m_index, N)
       /\ op = "flip" =>
            test(m_bitmask, m_index, N) = ~test(LastCall.mask, m_index, N)
       /\ \A j \in Bits(N) \ {m_index} :
            (j \in m_bitmask) = (j \in LastCall.mask)
       /\ m_bitmask \subseteq Bits(N)
  /\ Len(before) >= 2 =>
       /\ (op = "set" /\ CallBeforeLast.call = "set") =>
            m_bitmask = LastCall.mask
       /\ (op = "reset" /\ CallBeforeLast.call = "reset") =>
            m_bitmask = LastCall.mask
       /\ (op = "flip" /\ CallBeforeLast.call = "flip") =>
            m_bitmask = CallBeforeLast.mask

C20_Witness ==
  /\ N = 64
  /\ m_index = 63
  /\ op = "flip"
  /\ Len(before) = 2
  /\ before[1] = [call |-> "flip", mask |-> {1, 2, 6}]
  /\ before[2] = [call |-> "flip", mask |-> {1, 2, 6, 63}]
  /\ m_bitmask = {1, 2, 6}

\* C21: for every mask, the positions an Index takes from index_pre_begin
\* under next_bit_in until it equals index_end are, in the same order and in
\* the same number count(), the indices of the single-bit BitSets a
\* const_iterator yields from begin() to end().
C21_TraversalsAgree ==
  /\ pc # "scan" =>
       /\ Len(before) = count(m_bitmask)
       /\ \A k \in 1 .. Len(before) : before[k] \in Bits(N)
  /\ \A k \in 1 .. Len(yielded) :
       k <= Len(before) /\ yielded[k] = {before[k]}
  /\ pc = "done" => Len(yielded) = Len(before)

C21_Witness ==
  /\ pc = "done"
  /\ N = 16
  /\ m_bitmask = {1, 2, 6}
  /\ before = <<1, 2, 6>>
  /\ yielded = <<{1}, {2}, {6}>>

\* C22: in every sequence of calls on an Index that starts at pre-begin or
\* end, with next_bit_in called only when the position is not end and
\* prev_bit_in only when may_call_prev_bit_in() is true, the position is in
\* [-1, N] after every call, every shift performed has a count in [0, N),
\* and ctz and clz are only applied to a nonzero mask.
C22_DisciplinedCalls ==
  /\ m_index \in -1 .. N
  /\ op \in {"next_bit_in", "prev_bit_in"} =>
       /\ \A k \in arg : 0 <= k /\ k < N
       /\ \A k \in 1 .. Len(before) : before[k] # {}

C22_Witness ==
  /\ op = "prev_bit_in"
  /\ N = 32
  /\ m_bitmask = {1, 2, 6}
  /\ from = 1
  /\ arg = {31}
  /\ before = <<>>
  /\ m_index = index_pre_begin

===========================================================================
